---- MODULE Spec2Model ----
(***************************************************************************)
(* ClipAPI: two FastAPI endpoints, /embed_image/ and /embed_text/, over a  *)
(* CLIP model wrapper (app/routes.py, app/models.py).                      *)
(*                                                                         *)
(* The handlers are `async def` coroutines, so they run on the server's    *)
(* single event loop: a handler owns the loop (variable `running`) from    *)
(* the moment it is resumed until it awaits or ends.  Each action below is *)
(* one source statement of a handler, taken while the handler owns the     *)
(* loop; the actions that give the loop away are the two awaits.           *)
(*                                                                         *)
(* The third-party library (transformers / torch / PIL) is modelled by     *)
(* what the calls in models.py rely on: the processor turns its argument   *)
(* into a batch, get_*_features maps a batch of n inputs to a tensor of    *)
(* shape (n, EmbedDim) that depends on the weights and the inputs only,    *)
(* and Tensor.tolist() nests one list per tensor dimension.  Floats are    *)
(* abstracted to integers.                                                 *)
(***************************************************************************)
EXTENDS Integers, Sequences, FiniteSets, TLC

VARIABLES model, processor, running, req, calls

vars == <<model, processor, running, req, calls>>

(* Number of requests the server receives in one run. *)
NumRequests == 2

(* Dimensionality of the encoder's projection space (512 for the           *)
(* checkpoint of models.py; abstracted).                                   *)
EmbedDim == 3

Requests == 1..NumRequests

(* `running` when the event loop is idle. *)
NoTask == 0

StatusPending == 0
StatusOK == 200
StatusServerError == 500

---------------------------------------------------------------------------
(* JSON / Python values.  t is the type, v the literal, n the number a     *)
(* Python truth test looks at: the value of a number or bool, the length   *)
(* of a string, list or dict.                                              *)

JNull == [t |-> "null", v |-> "null", n |-> 0]
JStr(s, len) == [t |-> "str", v |-> s, n |-> len]
JNum(lit, val) == [t |-> "num", v |-> lit, n |-> val]
JBool(lit, val) == [t |-> "bool", v |-> lit, n |-> val]
JArr(lit, len) == [t |-> "arr", v |-> lit, n |-> len]
JObj(lit, len) == [t |-> "obj", v |-> lit, n |-> len]
PImage(name) == [t |-> "image", v |-> name, n |-> 1]

(* Python's bool(x), as `not text` of embed_text evaluates it. *)
Truthy(x) ==
    CASE x.t = "null" -> FALSE
      [] x.t \in {"bool", "num"} -> x.n # 0
      [] x.t \in {"str", "arr", "obj"} -> x.n > 0
      [] OTHER -> TRUE

FalsyTexts ==
    { JNull, JStr("", 0), JNum("0", 0), JBool("false", 0), JArr("[]", 0),
      JObj("{}", 0) }

TruthyStrings == { JStr("cat", 3), JStr("airplane", 8) }

TruthyNonStrings == { JNum("5", 5), JBool("true", 1), JArr("[1]", 1) }

TextValues == FalsyTexts \cup TruthyStrings \cup TruthyNonStrings

(* What request.json() can be asked to parse.  kind "obj" is a JSON        *)
(* object, with or without the key "text"; the other kinds are valid JSON  *)
(* that is no object, and "invalid" is a body that is not JSON.            *)
ObjectBodies ==
    { [kind |-> "obj", has |-> TRUE, text |-> x] : x \in TextValues }
        \cup { [kind |-> "obj", has |-> FALSE, text |-> JNull] }

NonObjectBodies ==
    { [kind |-> k, has |-> FALSE, text |-> JNull] : k \in {"arr", "str", "num"} }

InvalidBodies == { [kind |-> "invalid", has |-> FALSE, text |-> JNull] }

NoBody == [kind |-> "none", has |-> FALSE, text |-> JNull]

Bodies == ObjectBodies \cup NonObjectBodies \cup InvalidBodies

(* An upload: bytes that PIL decodes as an image, or bytes that it does    *)
(* not.                                                                    *)
Uploads ==
    { [name |-> "cat.png", decodes |-> TRUE],
      [name |-> "dog.jpg", decodes |-> TRUE],
      [name |-> "blob.bin", decodes |-> FALSE] }

NoUpload == [name |-> "", decodes |-> FALSE]

---------------------------------------------------------------------------
(* Tensors and their conversion to Python lists. *)

NoTensor == [shape |-> <<>>, data |-> <<>>]

(* The abstract value of feature j of one input under the given weights. *)
InputCode(x) ==
    CASE x.v = "cat" -> 1
      [] x.v = "airplane" -> 2
      [] x.v = "cat.png" -> 3
      [] x.v = "dog.jpg" -> 4
      [] OTHER -> 5 + x.n

Feature(m, x, j) == (m.weights * 1000) + (InputCode(x) * 10) + j

(* model.get_text_features / model.get_image_features on a batch: a        *)
(* tensor of shape (batch size, EmbedDim), stored row-major.               *)
Features(m, batch) ==
    [ shape |-> <<Len(batch), EmbedDim>>,
      data |-> [ k \in 1..(Len(batch) * EmbedDim) |->
                   Feature(m, batch[((k - 1) \div EmbedDim) + 1],
                           ((k - 1) % EmbedDim) + 1) ] ]

PyFloat(x) == [t |-> "float", v |-> x]
PyList(items) == [t |-> "list", items |-> items]
PyNone == [t |-> "none"]

(* Tensor.tolist(): one level of list per dimension of the tensor. *)
ToList(tensor) ==
    IF Len(tensor.shape) = 1
    THEN PyList([ j \in 1..tensor.shape[1] |-> PyFloat(tensor.data[j]) ])
    ELSE PyList([ i \in 1..tensor.shape[1] |->
                    PyList([ j \in 1..tensor.shape[2] |->
                               PyFloat(tensor.data[((i - 1) * tensor.shape[2]) + j]) ]) ])

---------------------------------------------------------------------------
(* Responses. *)

NoResponse == [keys |-> {}, embedding |-> PyNone, error |-> ""]

EmbeddingResponse(e) == [keys |-> {"embedding"}, embedding |-> e, error |-> ""]

ErrorResponse ==
    [keys |-> {"error"}, embedding |-> PyNone, error |-> "Text parameter is missing."]

---------------------------------------------------------------------------
(* Process-wide state of models.py, as the two module-level assignments    *)
(* leave it.                                                               *)

LoadedModel == [name |-> "openai/clip-vit-base-patch32", weights |-> 1, loads |-> 1]

LoadedProcessor == [name |-> "openai/clip-vit-base-patch32", loads |-> 1]

NewRequest ==
    [ endpoint |-> "none", pc |-> "new", file |-> NoUpload, body |-> NoBody,
      parsed |-> NoBody, text |-> JNull, inputs |-> <<>>, features |-> NoTensor,
      status |-> StatusPending, response |-> NoResponse ]

Init ==
    /\ model = LoadedModel
    /\ processor = LoadedProcessor
    /\ running = NoTask
    /\ req = [r \in Requests |-> NewRequest]
    /\ calls = [r \in Requests |-> <<>>]

Call(fn, arg) == [fn |-> fn, arg |-> arg]

(* The handler of r raises: the exception is not caught anywhere, the      *)
(* server answers 500 and the loop is free again.                          *)
Raise(r) ==
    /\ req' = [req EXCEPT ![r].pc = "done", ![r].status = StatusServerError]
    /\ running' = NoTask

(* The handler of r returns payload p: FastAPI sends it with status 200. *)
Return(r, p) ==
    /\ req' = [req EXCEPT ![r].pc = "done", ![r].status = StatusOK,
                          ![r].response = p]
    /\ running' = NoTask

---------------------------------------------------------------------------
(* The network side: a request reaches the server.  Nothing of the         *)
(* handler has run yet.                                                    *)

ArriveImage(r) ==
    /\ req[r].pc = "new"
    /\ \E f \in Uploads :
         req' = [req EXCEPT ![r].endpoint = "image", ![r].pc = "queued",
                            ![r].file = f]
    /\ UNCHANGED <<model, processor, running, calls>>

ArriveText(r) ==
    /\ req[r].pc = "new"
    /\ \E b \in Bodies :
         req' = [req EXCEPT ![r].endpoint = "text", ![r].pc = "queued",
                            ![r].body = b]
    /\ UNCHANGED <<model, processor, running, calls>>

---------------------------------------------------------------------------
(* POST /embed_image/ *)

(* routes.py:7-8, models.py:9-10: the loop calls embed_image, which        *)
(* awaits get_image_embedding(file), which runs up to `await file.read()`  *)
(* and gives the loop away there.                                          *)
StartImage(r) ==
    /\ running = NoTask
    /\ req[r].pc = "queued"
    /\ req[r].endpoint = "image"
    /\ req' = [req EXCEPT ![r].pc = "await_read"]
    /\ UNCHANGED <<model, processor, running, calls>>

(* The read of the upload completes; the coroutine is ready to resume. *)
ReadComplete(r) ==
    /\ req[r].pc = "await_read"
    /\ req' = [req EXCEPT ![r].pc = "read_ready"]
    /\ UNCHANGED <<model, processor, running, calls>>

(* ImageOpen with the decode error swallowed: an empty embedding is        *)
(* returned for bytes that are no image.                                   *)
ImageOpenSilent(r) ==
    /\ running = NoTask
    /\ req[r].pc = "read_ready"
    /\ IF req[r].file.decodes
       THEN /\ req' = [req EXCEPT ![r].pc = "img_processor"]
            /\ running' = r
       ELSE Return(r, EmbeddingResponse(PyList(<<>>)))
    /\ UNCHANGED <<model, processor, calls>>

(* models.py:10: the loop resumes the coroutine with the bytes;            *)
(* Image.open raises on bytes that are no image.                           *)
ImageOpen(r) ==
    /\ running = NoTask
    /\ req[r].pc = "read_ready"
    /\ IF req[r].file.decodes
       THEN /\ req' = [req EXCEPT ![r].pc = "img_processor"]
            /\ running' = r
       ELSE Raise(r)
    /\ UNCHANGED <<model, processor, calls>>

(* models.py:11: inputs = processor(images=image, return_tensors="pt"):    *)
(* a batch of the one image.                                               *)
ImageProcessor(r) ==
    /\ running = r
    /\ req[r].pc = "img_processor"
    /\ req' = [req EXCEPT ![r].pc = "img_forward",
                          ![r].inputs = <<PImage(req[r].file.name)>>]
    /\ UNCHANGED <<model, processor, running, calls>>

(* ImageForward handed to a worker thread and awaited: the loop is free    *)
(* while the forward pass runs.                                            *)
ImageForwardOffloaded(r) ==
    /\ running = r
    /\ req[r].pc = "img_forward"
    /\ req' = [req EXCEPT ![r].pc = "img_tolist",
                          ![r].features = Features(model, req[r].inputs)]
    /\ calls' = [calls EXCEPT ![r] = Append(@, Call("get_image_features", req[r].inputs))]
    /\ running' = NoTask
    /\ UNCHANGED <<model, processor>>

(* models.py:12-13: the forward pass, synchronous, with no_grad. *)
ImageForward(r) ==
    /\ running = r
    /\ req[r].pc = "img_forward"
    /\ req' = [req EXCEPT ![r].pc = "img_tolist",
                          ![r].features = Features(model, req[r].inputs)]
    /\ calls' = [calls EXCEPT ![r] = Append(@, Call("get_image_features", req[r].inputs))]
    /\ UNCHANGED <<model, processor, running>>

(* models.py:14, routes.py:8: return image_embedding.tolist(), wrapped     *)
(* in {"embedding": ...}.                                                  *)
ImageReturn(r) ==
    /\ running = r
    /\ req[r].pc = "img_tolist"
    /\ Return(r, EmbeddingResponse(ToList(req[r].features)))
    /\ UNCHANGED <<model, processor, calls>>

---------------------------------------------------------------------------
(* POST /embed_text/ *)

(* routes.py:12-13: the loop calls embed_text, which runs up to            *)
(* `await request.json()` and gives the loop away there.                   *)
StartText(r) ==
    /\ running = NoTask
    /\ req[r].pc = "queued"
    /\ req[r].endpoint = "text"
    /\ req' = [req EXCEPT ![r].pc = "await_json"]
    /\ UNCHANGED <<model, processor, running, calls>>

(* The request body has been received; the coroutine is ready to resume. *)
BodyReceived(r) ==
    /\ req[r].pc = "await_json"
    /\ req' = [req EXCEPT ![r].pc = "json_ready"]
    /\ UNCHANGED <<model, processor, running, calls>>

(* routes.py:13: body = await request.json(); json.loads raises on a body  *)
(* that is not JSON.                                                       *)
ParseJson(r) ==
    /\ running = NoTask
    /\ req[r].pc = "json_ready"
    /\ IF req[r].body.kind = "invalid"
       THEN Raise(r)
       ELSE /\ req' = [req EXCEPT ![r].pc = "get_text", ![r].parsed = req[r].body]
            /\ running' = r
    /\ UNCHANGED <<model, processor, calls>>

(* routes.py:14: text = body.get("text"): None when the key is absent,     *)
(* AttributeError when body is a list, a str or a number.                  *)
GetText(r) ==
    /\ running = r
    /\ req[r].pc = "get_text"
    /\ IF req[r].parsed.kind = "obj"
       THEN /\ req' = [req EXCEPT ![r].pc = "check_text",
                                  ![r].text = IF req[r].parsed.has
                                              THEN req[r].parsed.text
                                              ELSE JNull]
            /\ UNCHANGED running
       ELSE Raise(r)
    /\ UNCHANGED <<model, processor, calls>>

(* CheckText testing `text is None` instead of `not text`. *)
CheckTextNoneOnly(r) ==
    /\ running = r
    /\ req[r].pc = "check_text"
    /\ IF req[r].text.t = "null"
       THEN Return(r, ErrorResponse)
       ELSE /\ req' = [req EXCEPT ![r].pc = "txt_processor"]
            /\ UNCHANGED running
    /\ UNCHANGED <<model, processor, calls>>

(* CheckText answering a missing text with the error payload under a       *)
(* client-error status.                                                    *)
CheckTextHttpError(r) ==
    /\ running = r
    /\ req[r].pc = "check_text"
    /\ IF ~Truthy(req[r].text)
       THEN /\ req' = [req EXCEPT ![r].pc = "done", ![r].status = 400,
                                  ![r].response = ErrorResponse]
            /\ running' = NoTask
       ELSE /\ req' = [req EXCEPT ![r].pc = "txt_processor"]
            /\ UNCHANGED running
    /\ UNCHANGED <<model, processor, calls>>

(* CheckText with a type check: anything but a non-empty str is missing. *)
CheckTextTyped(r) ==
    /\ running = r
    /\ req[r].pc = "check_text"
    /\ IF req[r].text.t # "str" \/ ~Truthy(req[r].text)
       THEN Return(r, ErrorResponse)
       ELSE /\ req' = [req EXCEPT ![r].pc = "txt_processor"]
            /\ UNCHANGED running
    /\ UNCHANGED <<model, processor, calls>>

(* routes.py:15-17: if not text: return the error payload. *)
CheckText(r) ==
    /\ running = r
    /\ req[r].pc = "check_text"
    /\ IF ~Truthy(req[r].text)
       THEN Return(r, ErrorResponse)
       ELSE /\ req' = [req EXCEPT ![r].pc = "txt_processor"]
            /\ UNCHANGED running
    /\ UNCHANGED <<model, processor, calls>>

(* routes.py:18, models.py:16-17: get_text_embedding(text) is called and   *)
(* runs inputs = processor(text=[text], return_tensors="pt"): a batch of   *)
(* the one text.  The tokenizer takes a str; what it does with a value of  *)
(* another type is the library's choice: it raises or it tokenizes.        *)
TextProcessor(r) ==
    /\ running = r
    /\ req[r].pc = "txt_processor"
    /\ calls' = [calls EXCEPT ![r] = Append(@, Call("get_text_embedding", <<req[r].text>>))]
    /\ \/ /\ req' = [req EXCEPT ![r].pc = "txt_forward",
                                ![r].inputs = <<req[r].text>>]
          /\ UNCHANGED running
       \/ /\ req[r].text.t # "str"
          /\ Raise(r)
    /\ UNCHANGED <<model, processor>>

(* TextForward that loads the model again on every call. *)
TextForwardReload(r) ==
    /\ running = r
    /\ req[r].pc = "txt_forward"
    /\ model' = [model EXCEPT !.loads = @ + 1]
    /\ req' = [req EXCEPT ![r].pc = "txt_tolist",
                          ![r].features = Features(model, req[r].inputs)]
    /\ calls' = [calls EXCEPT ![r] = Append(@, Call("get_text_features", req[r].inputs))]
    /\ UNCHANGED <<processor, running>>

(* TextForward whose result depends on how many requests have used the     *)
(* model before (a forward pass with state, such as active dropout).       *)
TextForwardStateful(r) ==
    /\ running = r
    /\ req[r].pc = "txt_forward"
    /\ LET used == Cardinality({ q \in Requests : req[q].features # NoTensor })
       IN req' = [req EXCEPT ![r].pc = "txt_tolist",
                             ![r].features =
                                 Features([model EXCEPT !.weights = @ + used],
                                          req[r].inputs)]
    /\ calls' = [calls EXCEPT ![r] = Append(@, Call("get_text_features", req[r].inputs))]
    /\ UNCHANGED <<model, processor, running>>

(* TextForward behind a cache: an input another request has embedded is    *)
(* answered from that request's result, without a forward pass.            *)
TextForwardCached(r) ==
    /\ running = r
    /\ req[r].pc = "txt_forward"
    /\ IF \E q \in Requests \ {r} :
              req[q].features # NoTensor /\ req[q].inputs = req[r].inputs
       THEN /\ \E q \in Requests \ {r} :
                  /\ req[q].features # NoTensor /\ req[q].inputs = req[r].inputs
                  /\ req' = [req EXCEPT ![r].pc = "txt_tolist",
                                        ![r].features = req[q].features]
            /\ UNCHANGED calls
       ELSE /\ req' = [req EXCEPT ![r].pc = "txt_tolist",
                                  ![r].features = Features(model, req[r].inputs)]
            /\ calls' = [calls EXCEPT ![r] =
                             Append(@, Call("get_text_features", req[r].inputs))]
    /\ UNCHANGED <<model, processor, running>>

(* models.py:18-19: the forward pass, synchronous, with no_grad. *)
TextForward(r) ==
    /\ running = r
    /\ req[r].pc = "txt_forward"
    /\ req' = [req EXCEPT ![r].pc = "txt_tolist",
                          ![r].features = Features(model, req[r].inputs)]
    /\ calls' = [calls EXCEPT ![r] = Append(@, Call("get_text_features", req[r].inputs))]
    /\ UNCHANGED <<model, processor, running>>

(* models.py:20, routes.py:18: return text_embedding.tolist(), wrapped in  *)
(* {"embedding": ...}.                                                     *)
TextReturn(r) ==
    /\ running = r
    /\ req[r].pc = "txt_tolist"
    /\ Return(r, EmbeddingResponse(ToList(req[r].features)))
    /\ UNCHANGED <<model, processor, calls>>

---------------------------------------------------------------------------

Next ==
    \E r \in Requests :
        \/ ArriveImage(r)
        \/ ArriveText(r)
        \/ StartImage(r)
        \/ ReadComplete(r)
        \/ ImageOpen(r)
        \/ ImageProcessor(r)
        \/ ImageForward(r)
        \/ ImageReturn(r)
        \/ StartText(r)
        \/ BodyReceived(r)
        \/ ParseJson(r)
        \/ GetText(r)
        \/ CheckText(r)
        \/ TextProcessor(r)
        \/ TextForward(r)
        \/ TextReturn(r)

Spec == Init /\ [][Next]_vars

---------------------------------------------------------------------------
(* Vocabulary of the properties. *)

Done(r) == req[r].pc = "done"

HasEmbedding(r) == "embedding" \in req[r].response.keys

IsTextRequest(r) == req[r].endpoint = "text"

IsImageRequest(r) == req[r].endpoint = "image"

(* What body.get("text") yields for the body the client sent. *)
SentText(r) == IF req[r].body.has THEN req[r].body.text ELSE JNull

(* The forward passes request r has run. *)
ForwardCalls(r) ==
    SelectSeq(calls[r], LAMBDA c : c.fn \in {"get_image_features", "get_text_features"})

(* The calls of get_text_embedding request r has made. *)
TextEmbeddingCalls(r) ==
    SelectSeq(calls[r], LAMBDA c : c.fn = "get_text_embedding")

(* The one input a request carries. *)
OwnInput(r) == IF IsImageRequest(r) THEN PImage(req[r].file.name) ELSE SentText(r)

(* Positions at which a handler is between two statements, none of them an *)
(* await.                                                                  *)
SyncPcs ==
    { "img_processor", "img_forward", "img_tolist", "get_text", "check_text",
      "txt_processor", "txt_forward", "txt_tolist" }

(* Positions inside the model wrapper's synchronous part: preprocessing,   *)
(* forward pass, conversion of the result.                                 *)
InferencePcs ==
    { "img_processor", "img_forward", "img_tolist",
      "txt_processor", "txt_forward", "txt_tolist" }

(* Positions a request leaves by the network's doing, not the handler's. *)
EnvPcs == { "new", "await_read", "await_json" }

Inferring(r) == req[r].pc \in InferencePcs

---------------------------------------------------------------------------
(* C1: a /embed_text/ request whose JSON object has no "text" or has       *)
(* "text": "" gets exactly the payload {"error": "Text parameter is        *)
(* missing."}: its response never has an "embedding" key and it never      *)
(* calls get_text_embedding or runs a forward pass.                        *)
C1_MissingTextGetsError ==
    \A r \in Requests :
        (/\ IsTextRequest(r)
         /\ req[r].body.kind = "obj"
         /\ (~req[r].body.has \/ req[r].body.text = JStr("", 0)))
        => /\ ~HasEmbedding(r)
           /\ calls[r] = <<>>
           /\ Done(r) => req[r].response = ErrorResponse

(* Both cases of C1 have been answered: one request without "text", one    *)
(* with the empty string.                                                  *)
C1_Witness ==
    \E a, b \in Requests :
        /\ IsTextRequest(a) /\ Done(a) /\ req[a].body.kind = "obj" /\ ~req[a].body.has
        /\ IsTextRequest(b) /\ Done(b) /\ req[b].body.kind = "obj" /\ req[b].body.has
        /\ req[b].body.text = JStr("", 0)
        /\ req[a].response = ErrorResponse
        /\ req[b].response = ErrorResponse

(* C2: the "embedding" of every successful response is a flat list of      *)
(* floats: every element is a number, none a list.                         *)
C2_EmbeddingIsFlat ==
    \A r \in Requests :
        (Done(r) /\ HasEmbedding(r))
        => /\ req[r].response.embedding.t = "list"
           /\ \A i \in DOMAIN req[r].response.embedding.items :
                  req[r].response.embedding.items[i].t = "float"

(* C3: a /embed_image/ request whose bytes are no image ends as an         *)
(* uncaught failure (server error): no payload with an "embedding" key,    *)
(* and no forward pass.                                                    *)
C3_BadImageFails ==
    \A r \in Requests :
        (IsImageRequest(r) /\ ~req[r].file.decodes)
        => /\ ~HasEmbedding(r)
           /\ calls[r] = <<>>
           /\ req[r].features = NoTensor
           /\ Done(r) => (req[r].status = StatusServerError /\ req[r].response = NoResponse)

(* A request with undecodable bytes has been answered. *)
C3_Witness ==
    \E r \in Requests :
        /\ IsImageRequest(r) /\ ~req[r].file.decodes /\ Done(r)
        /\ req[r].status = StatusServerError

(* C4: embed_text reports a missing text as an ordinary return value: the  *)
(* answer to a JSON object with a falsy "text" carries the "error" key     *)
(* and the success status, and so does every answer with an embedding.     *)
C4_ErrorPayloadHasSuccessStatus ==
    \A r \in Requests :
        (IsTextRequest(r) /\ Done(r))
        => /\ (req[r].body.kind = "obj" /\ ~Truthy(SentText(r)))
                 => (req[r].status = StatusOK /\ "error" \in req[r].response.keys)
           /\ "error" \in req[r].response.keys => req[r].status = StatusOK
           /\ HasEmbedding(r) => req[r].status = StatusOK

(* One text request was answered on the error branch and another on the    *)
(* embedding branch.                                                       *)
C4_Witness ==
    \E a, b \in Requests :
        /\ IsTextRequest(a) /\ Done(a) /\ req[a].response = ErrorResponse
        /\ req[a].status = StatusOK
        /\ IsTextRequest(b) /\ Done(b) /\ HasEmbedding(b)
        /\ req[b].status = StatusOK

(* C5: the model and the processor are what the module load left: no step  *)
(* of any handler rebinds or changes them.                                 *)
C5_ModelReadOnly ==
    /\ model = LoadedModel
    /\ processor = LoadedProcessor

(* Every request has been answered, an image and a text among them with    *)
(* an embedding, and the handles are still the loaded ones.                *)
C5_Witness ==
    /\ \A r \in Requests : Done(r)
    /\ \E a, b \in Requests :
          /\ IsImageRequest(a) /\ HasEmbedding(a)
          /\ IsTextRequest(b) /\ HasEmbedding(b)
    /\ model = LoadedModel

C7_Step ==
    /\ \A r \in Requests :
          Inferring(r) =>
              \A q \in Requests \ {r} : (req[q].pc \in EnvPcs \/ req'[q] = req[q])
    /\ \A r \in Requests : req'[r].pc \in SyncPcs => running' = r
    /\ Cardinality({ r \in Requests : req'[r].pc \in InferencePcs }) <= 1

C7_InferenceBlocksLoop == [][C7_Step]_vars

(* A request is inside the model wrapper, its forward pass run and not yet *)
(* returned, while another one that is ready to run waits for the loop.    *)
C7_Witness ==
    \E r, q \in Requests :
        /\ r # q
        /\ running = r
        /\ req[r].pc \in {"img_tolist", "txt_tolist"}
        /\ req[q].pc \in {"queued", "read_ready", "json_ready"}

(* C8: all successful responses of a modality have embeddings of the same  *)
(* length, and that length is the model's embedding dimensionality.        *)
C8_EmbeddingLengthIsDim ==
    /\ \A r \in Requests :
          (Done(r) /\ HasEmbedding(r))
          => Len(req[r].response.embedding.items) = EmbedDim
    /\ \A a, b \in Requests :
          (/\ Done(a) /\ HasEmbedding(a) /\ Done(b) /\ HasEmbedding(b)
           /\ req[a].endpoint = req[b].endpoint)
          => Len(req[a].response.embedding.items) = Len(req[b].response.embedding.items)

(* C9: a request that returned an embedding ran exactly one forward pass,  *)
(* on a batch of exactly its own input, also when another request had      *)
(* embedded the same input before, and its embedding is the one computed   *)
(* from that input.                                                        *)
C9_OneForwardPassPerEmbedding ==
    \A r \in Requests :
        (Done(r) /\ HasEmbedding(r))
        => /\ Len(ForwardCalls(r)) = 1
           /\ ForwardCalls(r)[1].arg = <<OwnInput(r)>>
           /\ req[r].response.embedding = ToList(Features(model, <<OwnInput(r)>>))

(* Two requests with the same input have both returned an embedding, each  *)
(* after a forward pass of its own.                                        *)
C9_Witness ==
    \E a, b \in Requests :
        /\ a # b
        /\ Done(a) /\ HasEmbedding(a) /\ Done(b) /\ HasEmbedding(b)
        /\ req[a].endpoint = req[b].endpoint
        /\ OwnInput(a) = OwnInput(b)
        /\ Len(ForwardCalls(a)) = 1
        /\ Len(ForwardCalls(b)) = 1

(* C10: for a JSON object the outcome of embed_text depends on the         *)
(* truthiness of "text" alone: a falsy value of any type gets the error    *)
(* payload, a truthy value of any type is passed unchanged to              *)
(* get_text_embedding; a JSON body that is no object gets neither payload  *)
(* but an uncaught failure.                                                *)
C10_TruthinessDecides ==
    \A r \in Requests :
        IsTextRequest(r) =>
            /\ (req[r].body.kind = "obj" /\ ~Truthy(SentText(r)))
                  => /\ calls[r] = <<>>
                     /\ Done(r) => req[r].response = ErrorResponse
            /\ (req[r].body.kind = "obj" /\ Truthy(SentText(r)))
                  => /\ req[r].pc \in {"txt_forward", "txt_tolist", "done"}
                          => TextEmbeddingCalls(r) = <<Call("get_text_embedding", <<SentText(r)>>)>>
                     /\ "error" \notin req[r].response.keys
            /\ req[r].body.kind \in {"arr", "str", "num"}
                  => /\ calls[r] = <<>>
                     /\ req[r].response = NoResponse
                     /\ Done(r) => req[r].status = StatusServerError

(* A falsy number got the error payload and a truthy non-string was        *)
(* passed to get_text_embedding.                                           *)
C10_Witness ==
    \E a, b \in Requests :
        /\ IsTextRequest(a) /\ Done(a) /\ SentText(a) = JNum("0", 0)
        /\ req[a].body.has
        /\ req[a].response = ErrorResponse
        /\ IsTextRequest(b) /\ Done(b) /\ SentText(b) \in TruthyNonStrings
        /\ TextEmbeddingCalls(b) = <<Call("get_text_embedding", <<SentText(b)>>)>>

(* A JSON body that is no object has been answered with a server error. *)
C10_NonObjectWitness ==
    \E r \in Requests :
        /\ IsTextRequest(r) /\ Done(r) /\ req[r].body.kind \in {"arr", "str", "num"}
        /\ req[r].status = StatusServerError

====
